---------------------------- MODULE Spec2Model ----------------------------
(***************************************************************************)
(* The graph relation-and-optimization engine of sekgs-ai-creator-brain:   *)
(*   agents/relationer.py         build-edges (SequenceMatcher, atomic)    *)
(*   agents/agents/relationer.py  build-edges, token-overlap variant       *)
(*   agents/optimizer.py          optimize (decay pass, merge pass)        *)
(*                                                                         *)
(* Strings are sequences of one-character strings.  Node ids are naturals  *)
(* whose numeric order stands for the lexicographic order of the slugs;    *)
(* a node file <id>.json carries "id": <id> (agents/mapper.py writes both  *)
(* from the same slug).  Days are integers; relevance and trust scores     *)
(* are integers in units of 1/1000; similarity scores are integers in      *)
(* units of 1/1000000 (the six decimals that round(score, 6) keeps).       *)
(***************************************************************************)
EXTENDS Integers, Sequences, FiniteSets, TLC

(***************************************************************************)
(* Bounds of the model.                                                    *)
(***************************************************************************)
MaxId == 3
MaxRuns == 2
MaxOptRuns == 1
MaxClock == 1
MaxTopK == 2

Ids == 1..MaxId

(***************************************************************************)
(* Program constants.                                                      *)
(***************************************************************************)
STALE_DAYS == 180
DECAY_PERCENT == 20
DEFAULT_RELEVANCE == 50000
MIN_COMMON == 3
RELATIONS_TOP_K == 3

\* RELATIONS_MIN_SIM = 0.05, as a fraction MinSimNum / MinSimDen
MinSimNum == 5
MinSimDen == 100

(***************************************************************************)
(* Generic helpers.                                                        *)
(***************************************************************************)
Max(a, b) == IF a >= b THEN a ELSE b
Min(a, b) == IF a <= b THEN a ELSE b

Range(s) == {s[i] : i \in 1..Len(s)}

\* dict.setdefault / item assignment on a JSON object (a function on keys)
Put(f, k, v) == [x \in (DOMAIN f) \cup {k} |-> IF x = k THEN v ELSE f[x]]
\* dict.get(k, d)
Get(f, k, d) == IF k \in DOMAIN f THEN f[k] ELSE d

(***************************************************************************)
(* str.lower, str.split, str.strip, " ".join on character sequences.       *)
(***************************************************************************)
LowerChar(c) ==
    CASE c = "A" -> "a"
      [] c = "B" -> "b"
      [] c = "C" -> "c"
      [] c = "D" -> "d"
      [] c = "L" -> "l"
      [] c = "G" -> "g"
      [] OTHER -> c

Lower(s) == [i \in 1..Len(s) |-> LowerChar(s[i])]

IsSpace(c) == c \in {" ", "\n", "\r", "\t"}

\* str.split(): the maximal runs of non-whitespace characters, in order
RECURSIVE SplitFrom(_, _, _)
SplitFrom(s, i, cur) ==
    IF i > Len(s)
    THEN IF cur = <<>> THEN <<>> ELSE <<cur>>
    ELSE IF IsSpace(s[i])
         THEN (IF cur = <<>> THEN <<>> ELSE <<cur>>) \o SplitFrom(s, i + 1, <<>>)
         ELSE SplitFrom(s, i + 1, Append(cur, s[i]))

Split(s) == SplitFrom(s, 1, <<>>)

RECURSIVE JoinSpace(_)
JoinSpace(ws) ==
    IF ws = <<>> THEN <<>>
    ELSE IF Len(ws) = 1 THEN ws[1]
    ELSE ws[1] \o <<" ">> \o JoinSpace(Tail(ws))

RECURSIVE StripLeft(_)
StripLeft(s) ==
    IF s # <<>> /\ IsSpace(s[1]) THEN StripLeft(Tail(s)) ELSE s

RECURSIVE StripRight(_)
StripRight(s) ==
    IF s # <<>> /\ IsSpace(s[Len(s)])
    THEN StripRight(SubSeq(s, 1, Len(s) - 1))
    ELSE s

Strip(s) == StripRight(StripLeft(s))

\* relationer.normalize_text: \r and \n to blanks, collapse whitespace, lower
normalize_text(s) ==
    LET r == [i \in 1..Len(s) |-> IF s[i] \in {"\r", "\n"} THEN " " ELSE s[i]]
    IN  Lower(JoinSpace(Split(r)))

(***************************************************************************)
(* difflib.SequenceMatcher(None, a, b).ratio(), no junk (autojunk needs    *)
(* 200 characters).  find_longest_match returns the longest block, of      *)
(* those the one starting earliest in a, of those the earliest in b;       *)
(* get_matching_blocks recurses to the left and to the right of it.        *)
(* Positions are 1-based, ranges are [lo, hi).                             *)
(***************************************************************************)
RECURSIVE CommonPrefix(_, _, _, _, _, _)
CommonPrefix(a, i, ahi, b, j, bhi) ==
    IF i < ahi /\ j < bhi /\ a[i] = b[j]
    THEN 1 + CommonPrefix(a, i + 1, ahi, b, j + 1, bhi)
    ELSE 0

find_longest_match(a, alo, ahi, b, blo, bhi) ==
    LET cand == {<<i, j>> \in (alo..(ahi - 1)) \X (blo..(bhi - 1)) :
                    CommonPrefix(a, i, ahi, b, j, bhi) > 0}
        len(p) == CommonPrefix(a, p[1], ahi, b, p[2], bhi)
    IN  IF cand = {}
        THEN <<alo, blo, 0>>
        ELSE LET best == CHOOSE p \in cand :
                     \A q \in cand :
                         \/ len(p) > len(q)
                         \/ /\ len(p) = len(q)
                            /\ \/ p[1] < q[1]
                               \/ p[1] = q[1] /\ p[2] <= q[2]
             IN  <<best[1], best[2], len(best)>>

RECURSIVE MatchCount(_, _, _, _, _, _)
MatchCount(a, alo, ahi, b, blo, bhi) ==
    IF alo >= ahi \/ blo >= bhi
    THEN 0
    ELSE LET m == find_longest_match(a, alo, ahi, b, blo, bhi)
         IN  IF m[3] = 0
             THEN 0
             ELSE m[3] + MatchCount(a, alo, m[1], b, blo, m[2])
                       + MatchCount(a, m[1] + m[3], ahi, b, m[2] + m[3], bhi)

\* ratio() as the exact fraction <<2 * matches, len(a) + len(b)>>
Ratio(a, b) == <<2 * MatchCount(a, 1, Len(a) + 1, b, 1, Len(b) + 1), Len(a) + Len(b)>>

\* relationer.similarity: 0.0 when either text is empty, else the ratio
similarity(a, b) ==
    IF a = <<>> \/ b = <<>> THEN <<0, 1>> ELSE Ratio(a, b)

\* round(float(score), 6), in millionths
Round6(r) == (2 * 1000000 * r[1] + r[2]) \div (2 * r[2])

\* score >= RELATIONS_MIN_SIM
AboveMinSim(r) == r[1] * MinSimDen >= MinSimNum * r[2]


(***************************************************************************)
(* Files.  A file is absent, holds bytes that json.loads rejects (an       *)
(* empty or partly written file), or holds a JSON value.                   *)
(***************************************************************************)
Absent == [kind |-> "absent"]
Partial == [kind |-> "partial"]
JsonFile(v) == [kind |-> "json", obj |-> v]
\* a node file holding a JSON value that is truthy and not an object: [1]
ListFile == [kind |-> "list"]

\* JSON strings and numbers where a field may hold either
JStr(s) == [t |-> "str", v |-> s]
JNum(n) == [t |-> "num", v |-> n]

\* last_updated: an ISO date (a day number) or a string fromisoformat rejects
Day(d) == [ok |-> TRUE, day |-> d]
BadDate == [ok |-> FALSE, day |-> 0]

VARIABLES
    nodeFiles,      \* data/nodes/<id>.json, by id
    graphFile,      \* data/graph.json
    tmpFile,        \* data/graph.json.tmp
    clock,          \* the current day (all timestamps are taken from it)
    topK,           \* RELATIONS_TOP_K of the environment
    prog,           \* the program that is running: "none" when none is
    pc,             \* its position
    phase,          \* relationer.py: which write of main is under way
    data,           \* the graph object the running program is about to write
    mem,            \* optimizer.py: the loaded nodes, by id
    removed,        \* optimizer.py: the ids merge_exact_title returned
    delFailed,      \* optimizer.py: the ids whose os.remove raised
    rc,             \* exit status of the run that has just returned (else -1)
    runs,           \* build-edges runs started so far
    optRuns,        \* optimize runs started so far
    graphAtStart,   \* graph.json as the current run found it
    nodesAtStart,   \* the node store as the current run found it
    prev            \* what the last completed full build-edges run persisted

vars == <<nodeFiles, graphFile, tmpFile, clock, topK, prog, pc, phase, data,
          mem, removed, delFailed, rc, runs, optRuns, graphAtStart,
          nodesAtStart, prev>>

fileVars == <<nodeFiles, graphFile, tmpFile>>
envVars == <<clock, topK>>
runVars == <<runs, optRuns>>
localVars == <<mem, removed, delFailed>>
histVars == <<graphAtStart, nodesAtStart>>

NoData == <<>>
NoPrev == [ok |-> FALSE, opt |-> FALSE, failed |-> FALSE, merged |-> FALSE]

(***************************************************************************)
(* agents/relationer.py                                                    *)
(***************************************************************************)
\* safe_read_json: the parsed value, or None (here Absent) on any failure
safe_read_json(f) == IF f.kind \in {"json", "list"} THEN f ELSE Absent

\* sorted_node_list: the node files, sorted by name
sorted_node_list(files) == {i \in Ids : files[i].kind # "absent"}

RECURSIVE SetToSortedSeq(_)
SetToSortedSeq(S) ==
    IF S = {} THEN <<>>
    ELSE LET m == CHOOSE x \in S : \A y \in S : x <= y
         IN  <<m>> \o SetToSortedSeq(S \ {m})

\* main, lines 156-164: whether reading the node files raises (j.get on a
\* value that is not an object)
LoadRaises(files) == \E i \in Ids : files[i].kind = "list"

\* main, lines 156-164: the (node_id, text) list; text = j.get("text") or ""
TextOf(o) ==
    LET t == Get(o, "text", JStr(<<>>))
    IN  IF t.t = "num" /\ t.v = 0 THEN JStr(<<>>) ELSE t

LoadNodeList(files) ==
    LET ids == SetToSortedSeq({i \in Ids : files[i].kind = "json"})
    IN  [k \in 1..Len(ids) |-> <<ids[k], TextOf(files[ids[k]].obj)>>]

\* compute_relations, line 92: normalize_text raises on a text that is no str
NormalizeRaises(nodes) == \E k \in 1..Len(nodes) : nodes[k][2].t # "str"

\* the pair as enumerated, without the min and max of line 101
RawPair(a, b) == <<a, b>>

\* line 101: the canonical pair
CanonPair(a, b) == <<Min(a, b), Max(a, b)>>

\* lines 102 and 117: pair in seen_pairs
AlreadySeen(pair, seen) == pair \in seen

\* score order: x before y under key (-score, id)
ScoreLess(r, s) == r[1] * s[2] < s[1] * r[2]
SimBefore(x, y) ==
    \/ ScoreLess(y.score, x.score)
    \/ ~ScoreLess(x.score, y.score) /\ x.id <= y.id

RECURSIVE SortSims(_)
SortSims(S) ==
    IF S = {} THEN <<>>
    ELSE LET m == CHOOSE x \in S : \A y \in S : SimBefore(x, y)
         IN  <<m>> \o SortSims(S \ {m})

\* lines 109-114: take candidates above the threshold until top_k are chosen
RECURSIVE PickChosen(_, _, _, _)
PickChosen(sims, k, chosen, top_k) ==
    IF k > Len(sims) THEN chosen
    ELSE LET c2 == IF AboveMinSim(sims[k].score)
                   THEN Append(chosen, sims[k]) ELSE chosen
         IN  IF Len(c2) >= top_k THEN c2
             ELSE PickChosen(sims, k + 1, c2, top_k)

\* lines 115-122: append the chosen pairs not yet seen
RECURSIVE AddChosen(_, _, _)
AddChosen(chosen, k, acc) ==
    IF k > Len(chosen) THEN acc
    ELSE LET c == chosen[k]
         IN  IF AlreadySeen(c.pair, acc.seen)
             THEN AddChosen(chosen, k + 1, acc)
             ELSE AddChosen(chosen, k + 1,
                     [edges |-> Append(acc.edges,
                                   [source |-> c.pair[1], target |-> c.pair[2],
                                    score |-> Round6(c.score)]),
                      seen |-> acc.seen \cup {c.pair}])

\* lines 94-122: the scan of node i
RECURSIVE ScanFrom(_, _, _, _)
ScanFrom(nodes, i, acc, top_k) ==
    IF i > Len(nodes) THEN acc
    ELSE LET norm(k) == normalize_text(nodes[k][2].v)
             sims == {[id |-> nodes[j][1],
                       score |-> similarity(norm(i), norm(j)),
                       pair |-> CanonPair(nodes[i][1], nodes[j][1])] :
                      j \in {j \in 1..Len(nodes) :
                               /\ j # i
                               /\ ~AlreadySeen(CanonPair(nodes[i][1], nodes[j][1]),
                                               acc.seen)}}
             chosen == PickChosen(SortSims(sims), 1, <<>>, top_k)
         IN  ScanFrom(nodes, i + 1, AddChosen(chosen, 1, acc), top_k)

\* compute_relations: the edge list (its length is relations_count)
compute_relations(nodes, top_k) ==
    ScanFrom(nodes, 1, [edges |-> <<>>, seen |-> {}], top_k).edges


\* file_checksum: sha256 of the file's bytes ("" when it cannot be read);
\* the hash is taken as injective, so the bytes stand for it
file_checksum(f) == IF f.kind = "absent" THEN <<>> ELSE <<f>>

\* main, lines 145-151 and 168-174: the graph written for fewer than 2 nodes
SmallGraph(gf, now) ==
    LET g0 == IF gf.kind = "absent"
              THEN [meta |-> <<>>, nodes |-> <<>>, edges |-> <<>>]
              ELSE IF safe_read_json(gf).kind = "json" THEN gf.obj ELSE <<>>
        g1 == IF "meta" \in DOMAIN g0 THEN g0 ELSE Put(g0, "meta", <<>>)
    IN  Put(g1, "meta",
            Put(Put(g1["meta"], "relations_generated_at", now),
                "relations_count", 0))

\* main, lines 180-194: the graph of a full run, before its checksum
FullGraph(nodes, top_k, now) ==
    LET edges == compute_relations(nodes, top_k)
    IN  [meta |-> [generated_at |-> now,
                   relations_generated_at |-> now,
                   relations_count |-> Len(edges),
                   relations_top_k |-> top_k,
                   relations_checksum |-> <<>>,
                   optimized |-> TRUE],
         nodes |-> [k \in 1..Len(nodes) |-> nodes[k][1]],
         edges |-> edges]

\* main, lines 212-213: the graph written after an exception
FallbackGraph(now) ==
    [meta |-> [relations_generated_at |-> now, relations_count |-> 0],
     nodes |-> <<>>, edges |-> <<>>]

\* a run starts: what it finds is remembered for the properties
Begin ==
    /\ prog = "none"
    /\ graphAtStart' = graphFile
    /\ nodesAtStart' = nodeFiles

\* the program returns status
Return(status) ==
    /\ pc' = "done"
    /\ rc' = status

\* main, lines 206-218: the handler starts the fallback write
ToHandler ==
    /\ pc' = "open"
    /\ phase' = "fallback"
    /\ data' = FallbackGraph(clock)

\* main, lines 141-194: everything up to the first atomic_write
RelStart ==
    /\ Begin
    /\ runs < MaxRuns
    /\ runs' = runs + 1
    /\ prog' = "relationer"
    /\ LET nodes == LoadNodeList(nodeFiles)
       IN  IF sorted_node_list(nodeFiles) = {}
           THEN /\ pc' = "open"
                /\ phase' = "small"
                /\ data' = SmallGraph(graphFile, clock)
           ELSE IF LoadRaises(nodeFiles)
           THEN ToHandler
           ELSE IF Len(nodes) < 2
           THEN /\ pc' = "open"
                /\ phase' = "small"
                /\ data' = SmallGraph(graphFile, clock)
           ELSE IF NormalizeRaises(nodes)
           THEN ToHandler
           ELSE /\ pc' = "open"
                /\ phase' = "first"
                /\ data' = FullGraph(nodes, topK, clock)
    /\ UNCHANGED <<fileVars, envVars, localVars, rc, optRuns, prev>>

\* a write that opens the final path itself instead of the temporary file
in_place_open(tmp, path) == [tmp |-> tmp, path |-> Partial]

\* atomic_write, lines 126-127: write_text opens path + ".tmp", truncating it
atomic_write_open(tmp, path) == [tmp |-> Partial, path |-> path]

\* atomic_write, line 127: the temporary file is opened
AtomicOpen ==
    /\ prog = "relationer" /\ pc = "open"
    /\ tmpFile' = atomic_write_open(tmpFile, graphFile).tmp
    /\ graphFile' = atomic_write_open(tmpFile, graphFile).path
    /\ pc' = "write"
    /\ UNCHANGED <<nodeFiles, envVars, prog, phase, data, localVars, rc,
                   runVars, histVars, prev>>

\* atomic_write, line 127: the data reach the temporary file
AtomicWrite ==
    /\ prog = "relationer" /\ pc = "write"
    /\ tmpFile' = JsonFile(data)
    /\ pc' = "rename"
    /\ UNCHANGED <<nodeFiles, graphFile, envVars, prog, phase, data, localVars, rc,
                   runVars, histVars, prev>>

\* atomic_write, line 127: write_text raises (disk full); main's handler
\* takes over, and gives up with status 2 when its own write raises
AtomicWriteFails ==
    /\ prog = "relationer" /\ pc = "write"
    /\ IF phase = "fallback"
       THEN /\ Return(2)
            /\ UNCHANGED <<phase, data>>
       ELSE /\ ToHandler
            /\ UNCHANGED rc
    /\ UNCHANGED <<fileVars, envVars, prog, localVars, runVars, histVars, prev>>

\* atomic_write, line 128: the rename
atomic_replace(tmp, path) == tmp

\* atomic_write, line 128, and what main does next
\* (lines 199-205, 153-154, 176-177, 215-218)
AtomicRename ==
    /\ prog = "relationer" /\ pc = "rename"
    /\ graphFile' = atomic_replace(tmpFile, graphFile)
    /\ tmpFile' = Absent
    /\ CASE phase = "first" ->
              /\ data' = Put(data, "meta",
                             Put(data["meta"], "relations_checksum",
                                 file_checksum(graphFile')))
              /\ phase' = "second"
              /\ pc' = "open"
              /\ UNCHANGED rc
         [] phase = "fallback" ->
              /\ Return(2)
              /\ UNCHANGED <<phase, data>>
         [] OTHER ->
              /\ Return(0)
              /\ UNCHANGED <<phase, data>>
    /\ UNCHANGED <<nodeFiles, envVars, prog, localVars, runVars, histVars, prev>>

(***************************************************************************)
(* glob(): the node files in an arbitrary order.                           *)
(***************************************************************************)
Present(files) == {i \in Ids : files[i].kind # "absent"}

GlobOrders(files) ==
    LET S == Present(files)
    IN  {o \in [1..Cardinality(S) -> S] :
            \A x, y \in 1..Cardinality(S) : x # y => o[x] # o[y]}

\* load_nodes of agents/agents/relationer.py and of agents/optimizer.py:
\* json.load raises on bytes that are no JSON, j["id"] on a value that is
\* no object
load_nodes_raises(files) ==
    \E i \in Present(files) : files[i].kind # "json"

\* load_graph of both files: json.loads raises on a corrupt file
load_graph_raises(gf) == gf.kind = "partial"

load_graph(gf) ==
    IF gf.kind = "absent"
    THEN [meta |-> <<>>, nodes |-> <<>>, edges |-> <<>>]
    ELSE gf.obj

(***************************************************************************)
(* agents/agents/relationer.py                                             *)
(***************************************************************************)
\* build_edges, lines 30 and 33: the tokens of title and keywords
Tokens(o) ==
    Range(Split(Lower(Get(o, "title", <<>>) \o <<" ">>
                      \o JoinSpace(Get(o, "keywords", <<>>)))))

\* line 31: the inner loop starts after i
InnerStart(i) == i + 1

\* lines 31-37: the edges of row i, from column j on
RECURSIVE RowEdges(_, _, _, _)
RowEdges(files, ids, i, j) ==
    IF j > Len(ids) THEN <<>>
    ELSE LET common == Tokens(files[ids[i]].obj) \cap Tokens(files[ids[j]].obj)
             e == [source |-> ids[i], target |-> ids[j], type |-> "related_to",
                   weight |-> Min(1000, 250 + 50 * Cardinality(common))]
         IN  (IF Cardinality(common) >= MIN_COMMON THEN <<e>> ELSE <<>>)
             \o RowEdges(files, ids, i, j + 1)

RECURSIVE EdgesFrom(_, _, _)
EdgesFrom(files, ids, i) ==
    IF i > Len(ids) THEN <<>>
    ELSE RowEdges(files, ids, i, InnerStart(i)) \o EdgesFrom(files, ids, i + 1)

build_edges(files, ids) == EdgesFrom(files, ids, 1)

\* main, lines 55-62: the first edge of each (source, target) key
RECURSIVE DedupEdges(_, _, _)
DedupEdges(edges, k, seen) ==
    IF k > Len(edges) THEN <<>>
    ELSE LET key == <<edges[k].source, edges[k].target>>
         IN  IF key \in seen
             THEN DedupEdges(edges, k + 1, seen)
             ELSE <<edges[k]>> \o DedupEdges(edges, k + 1, seen \cup {key})

\* main, lines 49-65: everything up to save_graph
VarStart ==
    /\ Begin
    /\ runs < MaxRuns
    /\ runs' = runs + 1
    /\ prog' = "variant"
    /\ \E ord \in GlobOrders(nodeFiles) :
          IF load_nodes_raises(nodeFiles)
          THEN /\ Return(1)
               /\ UNCHANGED data
          ELSE IF Present(nodeFiles) = {}
          THEN /\ Return(0)
               /\ UNCHANGED data
          ELSE IF load_graph_raises(graphFile)
          THEN /\ Return(1)
               /\ UNCHANGED data
          ELSE LET g0 == load_graph(graphFile)
                   g1 == Put(Put(g0, "nodes", ord), "edges",
                             DedupEdges(build_edges(nodeFiles, ord), 1, {}))
                   m  == Put(Get(g1, "meta", <<>>), "relations_generated_at", clock)
               IN  /\ data' = Put(g1, "meta", m)
                   /\ pc' = "save_open"
                   /\ UNCHANGED rc
    /\ UNCHANGED <<fileVars, envVars, phase, mem, removed, delFailed, optRuns, prev>>

\* save_graph, line 46: write_text opens graph.json itself, truncating it
VarSaveOpen ==
    /\ prog = "variant" /\ pc = "save_open"
    /\ graphFile' = Partial
    /\ pc' = "save_write"
    /\ UNCHANGED <<nodeFiles, tmpFile, envVars, prog, phase, data, localVars, rc,
                   runVars, histVars, prev>>

\* save_graph, line 46: the data reach graph.json; main returns
VarSaveWrite ==
    /\ prog = "variant" /\ pc = "save_write"
    /\ graphFile' = JsonFile(data)
    /\ Return(0)
    /\ UNCHANGED <<nodeFiles, tmpFile, envVars, prog, phase, data, localVars,
                   runVars, histVars, prev>>

(***************************************************************************)
(* agents/optimizer.py                                                     *)
(***************************************************************************)
\* apply_decay, line 49: the decayed relevance_score
Decay(x) == Max(0, (x * (100 - DECAY_PERCENT)) \div 100)

\* a staleness test that misses the node that is exactly STALE_DAYS old
IsStaleStrict(o, now) ==
    /\ "last_updated" \in DOMAIN o
    /\ o["last_updated"].ok
    /\ now - o["last_updated"].day > STALE_DAYS

\* apply_decay, lines 40-48: whether the node is decayed at day now
IsStale(o, now) ==
    /\ "last_updated" \in DOMAIN o
    /\ o["last_updated"].ok
    /\ now - o["last_updated"].day >= STALE_DAYS

\* apply_decay, lines 39-51, for one node
DecayNode(o, now) ==
    IF IsStale(o, now)
    THEN Put(o, "relevance_score",
             Decay(Get(o, "relevance_score", DEFAULT_RELEVANCE)))
    ELSE o

\* merge_exact_title, line 58: the title key
TitleKey(o) == Lower(Strip(Get(o, "title", <<>>)))

\* a merge that keeps the canonical node's own trust_score
MergeIntoKeepTrust(knode, node) ==
    [knode EXCEPT
        !["relations"] = @ \o Get(node, "relations", <<>>),
        !["examples"] = @ \o Get(node, "examples", <<>>)]

\* merge_exact_title, lines 66-68: the canonical node after absorbing node
MergeInto(knode, node) ==
    [knode EXCEPT
        !["relations"] = @ \o Get(node, "relations", <<>>),
        !["examples"] = @ \o Get(node, "examples", <<>>),
        !["trust_score"] = Max(Get(knode, "trust_score", 0),
                               Get(node, "trust_score", 0))]

\* merge_exact_title, lines 66-67: knode["relations"] and knode["examples"]
\* raise KeyError on a canonical node that lacks the field
MergeRaises(knode) ==
    \/ "relations" \notin DOMAIN knode
    \/ "examples" \notin DOMAIN knode

\* merge_exact_title, lines 56-78, from position k of the glob order on;
\* st = [node, files, titles, removed, raised], fail = the ids whose
\* os.remove raises; the loop ends where line 66 or 67 raises
RECURSIVE MergeFrom(_, _, _, _)
MergeFrom(ord, k, st, fail) ==
    IF k > Len(ord) THEN st
    ELSE LET nid == ord[k]
             node == st.node[nid]
             t == TitleKey(node)
         IN  IF t = <<>>
             THEN MergeFrom(ord, k + 1, st, fail)
             ELSE IF t \in DOMAIN st.titles /\ MergeRaises(st.node[st.titles[t]])
             THEN [st EXCEPT !.raised = TRUE]
             ELSE IF t \in DOMAIN st.titles
             THEN LET keep == st.titles[t]
                      knode == MergeInto(st.node[keep], node)
                      f1 == [st.files EXCEPT ![keep] = JsonFile(knode)]
                      f2 == IF nid \in fail THEN f1
                            ELSE [f1 EXCEPT ![nid] = Absent]
                  IN  MergeFrom(ord, k + 1,
                          [node |-> [st.node EXCEPT ![keep] = knode],
                           files |-> f2,
                           titles |-> st.titles,
                           removed |-> Append(st.removed, nid),
                           raised |-> FALSE],
                          fail)
             ELSE MergeFrom(ord, k + 1,
                      [st EXCEPT !.titles = Put(st.titles, t, nid)], fail)

merge_exact_title(ord, nodes, files, fail) ==
    MergeFrom(ord, 1,
              [node |-> nodes, files |-> files, titles |-> <<>>,
               removed |-> <<>>, raised |-> FALSE],
              fail)

\* main, lines 82-85: load_nodes
OptBegin ==
    /\ Begin
    /\ optRuns' = optRuns + 1
    /\ prog' = "optimizer"
    /\ IF load_nodes_raises(nodeFiles) \/ Present(nodeFiles) = {}
       THEN /\ Return(IF load_nodes_raises(nodeFiles) THEN 1 ELSE 0)
            /\ UNCHANGED mem
       ELSE /\ pc' = "decay"
            /\ mem' = [i \in Present(nodeFiles) |-> nodeFiles[i].obj]
            /\ UNCHANGED rc
    /\ UNCHANGED <<fileVars, envVars, phase, data, removed, delFailed, runs, prev>>

OptStart ==
    /\ optRuns < MaxOptRuns
    /\ OptBegin

\* optimize is run once more right after a completed optimize run
OptRerun ==
    /\ prev.opt
    /\ optRuns < MaxOptRuns + 1
    /\ OptBegin

\* main, line 86: apply_decay
OptDecay ==
    /\ prog = "optimizer" /\ pc = "decay"
    /\ mem' = [i \in DOMAIN mem |-> DecayNode(mem[i], clock)]
    /\ nodeFiles' = [i \in Ids |->
                       IF i \in DOMAIN mem /\ IsStale(mem[i], clock)
                       THEN JsonFile(DecayNode(mem[i], clock))
                       ELSE nodeFiles[i]]
    /\ pc' = "merge"
    /\ UNCHANGED <<graphFile, tmpFile, envVars, prog, phase, data, removed,
                   delFailed, rc, runVars, histVars, prev>>

\* main, line 87: merge_exact_title; a KeyError in it ends the run.  The
\* nodes dict keeps the glob order of
\* load_nodes (line 30); this pass is the only one that depends on it, so
\* the order is drawn here
OptMerge ==
    /\ prog = "optimizer" /\ pc = "merge"
    /\ \E ord \in GlobOrders(nodesAtStart) :
       \E fail \in SUBSET Range(merge_exact_title(ord, mem, nodeFiles, {}).removed) :
          LET st == merge_exact_title(ord, mem, nodeFiles, fail)
          IN  /\ mem' = st.node
              /\ nodeFiles' = st.files
              /\ removed' = st.removed
              /\ delFailed' = fail
              /\ IF st.raised
                 THEN Return(1)
                 ELSE pc' = "graph" /\ UNCHANGED rc
    /\ UNCHANGED <<graphFile, tmpFile, envVars, prog, phase, data,
                   runVars, histVars, prev>>

\* main, lines 88-90: load_graph, the node filter and optimized_at
OptGraph ==
    /\ prog = "optimizer" /\ pc = "graph"
    /\ IF load_graph_raises(graphFile)
       THEN /\ Return(1)
            /\ UNCHANGED data
       ELSE LET g0 == load_graph(graphFile)
                old == Get(g0, "nodes", <<>>)
                g1 == Put(g0, "nodes",
                          SelectSeq(old, LAMBDA n : n \notin Range(removed)))
                m  == Put(Get(g1, "meta", <<>>), "optimized_at", clock)
            IN  /\ data' = Put(g1, "meta", m)
                /\ pc' = "save_open"
                /\ UNCHANGED rc
    /\ UNCHANGED <<fileVars, envVars, prog, phase, localVars, runVars, histVars, prev>>

\* save_graph, line 26: write_text opens graph.json itself, truncating it
OptSaveOpen ==
    /\ prog = "optimizer" /\ pc = "save_open"
    /\ graphFile' = Partial
    /\ pc' = "save_write"
    /\ UNCHANGED <<nodeFiles, tmpFile, envVars, prog, phase, data, localVars, rc,
                   runVars, histVars, prev>>

\* save_graph, line 26: the data reach graph.json; main returns
OptSaveWrite ==
    /\ prog = "optimizer" /\ pc = "save_write"
    /\ graphFile' = JsonFile(data)
    /\ Return(0)
    /\ UNCHANGED <<nodeFiles, tmpFile, envVars, prog, phase, data, localVars,
                   runVars, histVars, prev>>

(***************************************************************************)
(* The environment: the process ends, time passes between runs, and a      *)
(* running process may be killed at any step.                              *)
(***************************************************************************)
Idle ==
    /\ prog' = "none"
    /\ pc' = "idle"
    /\ phase' = "none"
    /\ data' = NoData
    /\ mem' = <<>>
    /\ removed' = <<>>
    /\ delFailed' = {}
    /\ rc' = -1
    /\ graphAtStart' = Absent
    /\ nodesAtStart' = <<>>

\* the process that returned ends; a completed full build-edges run leaves
\* what it persisted for the comparison with the next run, a completed
\* optimize run the fact that it ran, whether it removed a node and whether
\* a deletion failed
Exit ==
    /\ pc = "done"
    /\ Idle
    /\ prev' = IF prog = "relationer" /\ phase = "second" /\ rc = 0
               THEN [ok |-> TRUE, opt |-> FALSE, failed |-> FALSE, merged |-> FALSE,
                     store |-> nodesAtStart, top |-> topK,
                     edges |-> data["edges"],
                     checksum |-> data["meta"]["relations_checksum"]]
               ELSE IF prog = "optimizer" /\ rc = 0
               THEN [ok |-> FALSE, opt |-> TRUE, failed |-> delFailed # {},
                     merged |-> removed # <<>>]
               ELSE NoPrev
    /\ UNCHANGED <<fileVars, envVars, runVars>>

Tick ==
    /\ prog = "none"
    /\ clock < MaxClock
    /\ clock' = clock + 1
    /\ UNCHANGED <<fileVars, topK, prog, pc, phase, data, localVars, rc, runVars,
                   histVars, prev>>

Crash ==
    /\ prog # "none" /\ pc # "done"
    /\ Idle
    /\ prev' = NoPrev
    /\ UNCHANGED <<fileVars, envVars, runVars>>

(***************************************************************************)
(* The inputs: node records and earlier graphs.                            *)
(***************************************************************************)
Node(title, text, keywords, trust, relevance, lu, relations, examples) ==
    [title |-> title, text |-> text, keywords |-> keywords,
     trust_score |-> trust, relevance_score |-> relevance,
     last_updated |-> lu, relations |-> relations, examples |-> examples]

Without(o, k) == [x \in (DOMAIN o) \ {k} |-> o[x]]

\* records for build-edges: texts "Ab", "bacb", none, and the number 5
RelA == Node(<<"A", " ", "b">>, JStr(<<"A", "b">>), << <<"c">> >>,
             30000, 50000, Day(0), <<>>, <<>>)
RelB == Node(<<"a", " ", "B">>, JStr(<<"b", "a", "c", "b">>), << <<"D">> >>,
             30000, 50000, Day(0), <<>>, <<>>)
RelC == Without(Node(<<"a">>, JStr(<<>>), <<>>, 30000, 50000, Day(0), <<>>, <<>>),
                "text")
RelNum == Node(<<"d">>, JNum(5), <<>>, 30000, 50000, Day(0), <<>>, <<>>)

RelGood == {Absent, JsonFile(RelA), JsonFile(RelB)}
RelBad == {Partial, ListFile, JsonFile(RelNum), JsonFile(RelC)}

\* node stores with at most one bad record
RelStores ==
    {f \in [Ids -> RelGood \cup RelBad] :
        Cardinality({i \in Ids : f[i] \in RelBad}) <= 1}

\* records for optimize: titles "Lg", "lg ", " " and "a"; last updated 180
\* and 179 days before day 0, never, and on an unparseable date
OptA == Node(<<"L", "g">>, JStr(<<>>), <<>>, 30000, 50000, Day(-180), <<1>>, <<11>>)
OptB == Node(<<"l", "g", " ">>, JStr(<<>>), <<>>, 70000, 10000, Day(-179), <<2>>, <<>>)
OptC == Without(Node(<<" ">>, JStr(<<>>), <<>>, 10000, 0, Day(0), <<3>>, <<13>>),
                "last_updated")
OptD == Node(<<"a">>, JStr(<<>>), <<>>, 0, 20000, BadDate, <<>>, <<14>>)

\* a record without relations, as a writer other than the mapper leaves it
OptNoRel == Without(OptA, "relations")

\* stores of titled records in which exactly one record is bad: not
\* parseable, or without relations
OptBadStores ==
    {st \in [Ids -> {JsonFile(OptA), JsonFile(OptB), Partial, JsonFile(OptNoRel)}] :
        Cardinality({i \in Ids : st[i] \in {Partial, JsonFile(OptNoRel)}}) = 1}

\* the full stores over these records, and the empty store
OptStores ==
    [Ids -> {JsonFile(OptA), JsonFile(OptB), JsonFile(OptC), JsonFile(OptD)}]
        \cup {[i \in Ids |-> Absent]}

\* a graph that an earlier build-edges run left, over nodes 1 and 2
PriorGraph ==
    [meta |-> [generated_at |-> -1, relations_generated_at |-> -1,
               relations_count |-> 1, relations_top_k |-> RELATIONS_TOP_K,
               relations_checksum |-> <<>>, optimized |-> TRUE],
     nodes |-> <<1, 2>>,
     edges |-> <<[source |-> 1, target |-> 2, score |-> 500000]>>]

\* nothing runs yet
InitLocals ==
    /\ tmpFile = Absent
    /\ clock = 0
    /\ prog = "none"
    /\ pc = "idle"
    /\ phase = "none"
    /\ data = NoData
    /\ mem = <<>>
    /\ removed = <<>>
    /\ delFailed = {}
    /\ rc = -1
    /\ runs = 0
    /\ optRuns = 0
    /\ graphAtStart = Absent
    /\ nodesAtStart = <<>>
    /\ prev = NoPrev

\* RELATIONS_TOP_K has its default
InitCommon ==
    /\ topK = RELATIONS_TOP_K
    /\ InitLocals

InitRel ==
    /\ nodeFiles \in RelStores
    /\ graphFile \in {Absent, JsonFile(PriorGraph)}
    /\ InitCommon

\* stores whose records are all readable, no earlier graph
InitBuild ==
    /\ nodeFiles \in [Ids -> RelGood]
    /\ graphFile = Absent
    /\ InitCommon

InitOpt ==
    /\ nodeFiles \in OptStores
    /\ graphFile = JsonFile(PriorGraph)
    /\ InitCommon

InitOptCrash ==
    /\ nodeFiles \in OptStores
    /\ graphFile \in {Absent, JsonFile(PriorGraph)}
    /\ InitCommon

\* stores whose records are all readable; graph.json is absent, corrupt or
\* left by an earlier run
InitLoad ==
    /\ nodeFiles \in [Ids -> RelGood]
    /\ graphFile \in {Absent, Partial, JsonFile(PriorGraph)}
    /\ InitCommon

\* stores of records with and without text, no earlier graph, and the
\* environment sets RELATIONS_TOP_K
InitTopK ==
    /\ nodeFiles \in [Ids -> RelGood \cup {JsonFile(RelC)}]
    /\ graphFile = Absent
    /\ topK \in 0..MaxTopK
    /\ InitLocals

InitOptBad ==
    /\ nodeFiles \in OptBadStores
    /\ graphFile = JsonFile(PriorGraph)
    /\ InitCommon

Init == InitRel \/ InitOptCrash \/ InitLoad \/ InitTopK \/ InitOptBad

NextRel ==
    \/ RelStart
    \/ AtomicOpen
    \/ AtomicWrite
    \/ AtomicWriteFails
    \/ AtomicRename
    \/ Exit
    \/ Tick
    \/ Crash

NextRelOk ==
    \/ RelStart
    \/ AtomicOpen
    \/ AtomicWrite
    \/ AtomicRename
    \/ Exit

NextBuild ==
    \/ RelStart
    \/ AtomicOpen
    \/ AtomicWrite
    \/ AtomicRename
    \/ VarStart
    \/ VarSaveOpen
    \/ VarSaveWrite
    \/ Exit

NextOpt ==
    \/ OptStart
    \/ OptDecay
    \/ OptMerge
    \/ OptGraph
    \/ OptSaveOpen
    \/ OptSaveWrite
    \/ Exit

NextOptCrash ==
    \/ NextOpt
    \/ Tick
    \/ Crash

Next ==
    \/ RelStart
    \/ AtomicOpen
    \/ AtomicWrite
    \/ AtomicWriteFails
    \/ AtomicRename
    \/ VarStart
    \/ VarSaveOpen
    \/ VarSaveWrite
    \/ OptStart
    \/ OptRerun
    \/ OptDecay
    \/ OptMerge
    \/ OptGraph
    \/ OptSaveOpen
    \/ OptSaveWrite
    \/ Exit
    \/ Tick
    \/ Crash

\* build-edges of agents/relationer.py, with write failures, kills and the
\* passing of time
SpecRel == InitRel /\ [][NextRel]_vars
\* build-edges of agents/relationer.py, every run to its end
SpecRelOk == InitRel /\ [][NextRelOk]_vars
\* build-edges in both implementations, every run to its end
SpecBuild == InitBuild /\ [][NextBuild]_vars
\* optimize alone, every run to its end
SpecOpt == InitOpt /\ [][NextOpt]_vars
\* optimize alone, with kills and the passing of time
SpecOptCrash == InitOptCrash /\ [][NextOptCrash]_vars
\* optimize, and optimize once more after it
NextOptTwice ==
    \/ NextOpt
    \/ OptRerun

SpecOptTwice == InitOpt /\ [][NextOptTwice]_vars
\* all three programs, every run to its end
NextLoad ==
    \/ NextBuild
    \/ NextOpt

SpecLoad == InitLoad /\ [][NextLoad]_vars
\* build-edges of agents/relationer.py under every RELATIONS_TOP_K
SpecTopK == InitTopK /\ [][NextRelOk]_vars
\* optimize and build-edges of agents/relationer.py, one after the other
NextOptRel ==
    \/ NextOpt
    \/ NextRelOk

SpecOptRel == InitOpt /\ [][NextOptRel]_vars
\* optimize on a store with one bad record
SpecOptBad == InitOptBad /\ [][NextOpt]_vars
\* all three programs
Spec == Init /\ [][Next]_vars


(***************************************************************************)
(* Properties.                                                             *)
(***************************************************************************)
\* the graph object in graph.json, when the file parses
GraphIn(f) == f.obj
HasEdges(f) == f.kind = "json" /\ "edges" \in DOMAIN f.obj

\* a run of either build-edges implementation has returned the graph `data`
BuildDone ==
    /\ pc = "done"
    /\ rc = 0
    /\ \/ prog = "variant"
       \/ prog = "relationer" /\ phase = "second"
    /\ "edges" \in DOMAIN data

\* C1: every edge emitted by a build-edges run, of either implementation and
\* under every enumeration order of the node files, has source < target.
C1_CanonicalOrder ==
    BuildDone =>
        \A k \in 1..Len(data["edges"]) :
            data["edges"][k].source < data["edges"][k].target

NoDuplicatePairs(edges) ==
    \A i, j \in 1..Len(edges) :
        i # j =>
            /\ <<edges[i].source, edges[i].target>>
                   # <<edges[j].source, edges[j].target>>
            /\ <<edges[i].source, edges[i].target>>
                   # <<edges[j].target, edges[j].source>>

\* C2: the edge list that build-edges persists never holds two edges with
\* the same (source, target) pair, nor one pair of nodes in both directions.
C2_NoDuplicateEdges ==
    HasEdges(graphFile) => NoDuplicatePairs(GraphIn(graphFile)["edges"])

\* a full run of agents/relationer.py has persisted three edges
C2_Witness ==
    /\ BuildDone
    /\ prog = "relationer"
    /\ graphFile = JsonFile(data)
    /\ Len(data["edges"]) >= 3

\* C3: two build-edges runs in succession on an unchanged node store with
\* unchanged configuration persist the same edge sequence and the same
\* meta.relations_checksum.
C3_Idempotent ==
    (/\ BuildDone
     /\ prog = "relationer"
     /\ prev.ok
     /\ prev.store = nodesAtStart
     /\ prev.top = topK)
    => /\ data["edges"] = prev.edges
       /\ data["meta"]["relations_checksum"] = prev.checksum

\* C4: a build-edges run that finds fewer than 2 readable nodes returns
\* success and leaves a graph with edges == [] and relations_count == 0,
\* whatever graph was persisted before.
C4_DegenerateEmpty ==
    (prog = "relationer" /\ pc = "done" /\ phase = "small")
    => /\ rc = 0
       /\ HasEdges(graphFile)
       /\ GraphIn(graphFile)["edges"] = <<>>
       /\ GraphIn(graphFile)["meta"]["relations_count"] = 0

\* C5: at every step of a build-edges run of agents/relationer.py, killed or
\* not, graph.json holds the graph the run found or a completely written
\* new one, never a partly written file; this covers the first write, the
\* checksum rewrite and the fallback write.
C5_AtomicGraphFile ==
    prog = "relationer" =>
        \/ graphFile = graphAtStart
        \/ /\ graphFile.kind = "json"
           /\ {"meta", "nodes", "edges"} \subseteq DOMAIN GraphIn(graphFile)

\* the checksum rewrite is under way: the temporary file is partly written
\* and graph.json holds the complete first write
C5_Witness ==
    /\ prog = "relationer"
    /\ phase = "second"
    /\ pc = "write"
    /\ tmpFile = Partial
    /\ graphFile.kind = "json"
    /\ graphFile # graphAtStart
    /\ graphAtStart.kind = "json"

\* C6: at every step of an optimize run, killed or not, graph.json holds the
\* graph the run found or a completely written new one.
C6_OptimizeAtomic ==
    (prog = "optimizer" /\ graphAtStart.kind = "json")
    => graphFile.kind = "json"

\* C7: a build-edges run that returns a non-zero status leaves graph.json
\* exactly as it found it.
C7_FailureLeavesGraph ==
    (prog = "relationer" /\ pc = "done" /\ rc # 0)
    => graphFile = graphAtStart

\* C8: with at most one bad node record in the store (unparseable, not an
\* object, text missing or not a string) and storage that works, build-edges
\* returns success with the graph it computed written.
C8_BadRecordTolerated ==
    (prog = "relationer" /\ pc = "done")
    => /\ rc = 0
       /\ graphFile = JsonFile(data)

\* the relevance_score a node record had when the optimize run started
RelevanceBefore(i) == nodesAtStart[i].obj["relevance_score"]

\* C9: for every node with relevance_score >= 0, after the decay pass of an
\* optimize run the score is at most what it was; it is unchanged when the
\* node is younger than STALE_DAYS or last_updated is missing or unparseable,
\* and otherwise it is exactly before * (100 - DECAY_PERCENT) / 100, applied
\* once; the rewritten node file carries the same score.
C9_DecayExact ==
    (prog = "optimizer" /\ pc \in {"merge", "graph", "save_open", "save_write"})
    => \A i \in DOMAIN mem :
          LET o == nodesAtStart[i].obj
              after == mem[i]["relevance_score"]
              stale == /\ "last_updated" \in DOMAIN o
                       /\ o["last_updated"].ok
                       /\ clock - o["last_updated"].day >= STALE_DAYS
          IN  ("relevance_score" \in DOMAIN o /\ RelevanceBefore(i) >= 0)
              => /\ after <= RelevanceBefore(i)
                 /\ ~stale => after = RelevanceBefore(i)
                 /\ stale => /\ after >= 0
                             /\ 100 * after
                                  = (100 - DECAY_PERCENT) * RelevanceBefore(i)
                 /\ pc = "merge"
                      => nodeFiles[i].obj["relevance_score"] = after

\* the decay pass has lowered a score of 50 to 40 and left a younger node,
\* a node without last_updated or a node with a bad date as it was
C9_Witness ==
    /\ prog = "optimizer"
    /\ pc = "merge"
    /\ \E i, j \in DOMAIN mem :
          /\ RelevanceBefore(i) = 50000
          /\ mem[i]["relevance_score"] = 40000
          /\ nodeFiles[i].obj["relevance_score"] = 40000
          /\ RelevanceBefore(j) > 0
          /\ mem[j]["relevance_score"] = RelevanceBefore(j)

\* the nodes of the store at the start of the run that share node i's title
\* after trimming and lowercasing
TitleGroup(i) ==
    {j \in Present(nodesAtStart) :
        TitleKey(nodesAtStart[j].obj) = TitleKey(nodesAtStart[i].obj)}

\* the records of a group that are still in the store
Remaining(G) == {j \in G : nodeFiles[j].kind # "absent"}

\* the removed duplicates of a group, in the order of their removal
RemovedOf(G) == SelectSeq(removed, LAMBDA n : n \in G)

\* the field of each node of ids, as it was at the start, one after another
RECURSIVE ConcatField(_, _)
ConcatField(ids, field) ==
    IF ids = <<>> THEN <<>>
    ELSE Get(nodesAtStart[Head(ids)].obj, field, <<>>)
             \o ConcatField(Tail(ids), field)

MaxTrust(G) ==
    CHOOSE m \in {Get(nodesAtStart[j].obj, "trust_score", 0) : j \in G} :
        \A j \in G : m >= Get(nodesAtStart[j].obj, "trust_score", 0)

\* the record of s consolidates group G
Consolidated(s, G) ==
    /\ nodeFiles[s].kind = "json"
    /\ nodeFiles[s].obj["trust_score"] = MaxTrust(G)
    /\ nodeFiles[s].obj["relations"]
         = nodesAtStart[s].obj["relations"] \o ConcatField(RemovedOf(G), "relations")
    /\ nodeFiles[s].obj["examples"]
         = nodesAtStart[s].obj["examples"] \o ConcatField(RemovedOf(G), "examples")

NodesOf(f) == IF f.kind = "json" THEN Get(f.obj, "nodes", <<>>) ELSE <<>>

\* C11: an optimize run that directly follows a completed optimize run
\* leaves every node record and the graph's nodes list as it found them;
\* it changes nothing but meta.optimized_at.  (Stated for two runs in which
\* every deletion succeeded.)
C11_OptimizeIdempotent ==
    (/\ prog = "optimizer" /\ pc = "done" /\ rc = 0
     /\ prev.opt /\ ~prev.failed /\ delFailed = {})
    => /\ nodeFiles = nodesAtStart
       /\ NodesOf(graphFile) = NodesOf(graphAtStart)

\* C12: when the deletion of a duplicate's record fails during the merge
\* pass, the run still ends successfully with the graph written, and an id
\* whose record is still in the store is not counted as removed and is not
\* dropped from graph.nodes.
C12_DeleteFailureReported ==
    (prog = "optimizer" /\ pc = "done" /\ delFailed # {})
    => /\ rc = 0
       /\ graphFile = JsonFile(data)
       /\ \A i \in delFailed :
             nodeFiles[i].kind # "absent"
             => /\ i \notin Range(removed)
                /\ i \in Range(NodesOf(graphAtStart))
                     => i \in Range(NodesOf(graphFile))

\* the run that has returned is one that loads graph.json: optimize and the
\* variant build-edges with a store that is not empty, agents/relationer.py
\* with fewer than 2 nodes
LoadedGraph ==
    /\ pc = "done"
    /\ \/ prog \in {"optimizer", "variant"} /\ Present(nodesAtStart) # {}
       \/ prog = "relationer" /\ phase = "small"

\* C13: a run that loads graph.json when the file is absent or corrupt does
\* not abort: it returns success and the graph it persists has all three of
\* meta, nodes and edges.
C13_LoadNeverFails ==
    (LoadedGraph /\ graphAtStart.kind \in {"absent", "partial"})
    => /\ rc = 0
       /\ graphFile.kind = "json"
       /\ {"meta", "nodes", "edges"} \subseteq DOMAIN GraphIn(graphFile)

\* the normalized text of node i, as compute_relations scores it
NodeText(i) == normalize_text(TextOf(nodesAtStart[i].obj).v)

\* C14: the similarity that a build-edges run of agents/relationer.py uses
\* is symmetric on the texts it scored, so the score of each emitted edge is
\* the similarity of its endpoints taken in either order.
C14_SimilaritySymmetric ==
    (BuildDone /\ prog = "relationer")
    => /\ \A i, j \in Present(nodesAtStart) :
             similarity(NodeText(i), NodeText(j))
                 = similarity(NodeText(j), NodeText(i))
       /\ \A k \in 1..Len(data["edges"]) :
             LET e == data["edges"][k]
             IN  /\ e.score = Round6(similarity(NodeText(e.source),
                                                NodeText(e.target)))
                 /\ e.score = Round6(similarity(NodeText(e.target),
                                                NodeText(e.source)))

\* the candidate list of node i in the reference algorithm: all other nodes
\* of the store with a score of at least the minimum, by descending score
\* and then ascending id
Candidates(i) ==
    SortSims({[id |-> j,
               score |-> similarity(NodeText(i), NodeText(j)),
               pair |-> CanonPair(i, j)] :
              j \in {j \in Present(nodesAtStart) \ {i} :
                       AboveMinSim(similarity(NodeText(i), NodeText(j)))}})

\* the ids among the first k entries of node i's candidate list
FirstOf(i, k) ==
    {Candidates(i)[n].id : n \in 1..Min(k, Len(Candidates(i)))}

\* the pairs of the reference algorithm
ReferencePairs(k) ==
    {CanonPair(i, j) : i, j \in Present(nodesAtStart)}
        \cap {p \in Ids \X Ids :
                 /\ p[1] # p[2]
                 /\ p[2] \in FirstOf(p[1], k) \/ p[1] \in FirstOf(p[2], k)}

\* C15: for every top_k >= 0 the pairs that a build-edges run of
\* agents/relationer.py emits are those of the reference algorithm: {i, j}
\* is emitted iff j is among the first top_k of i's candidates or i among
\* the first top_k of j's.
C15_TopKReference ==
    (BuildDone /\ prog = "relationer")
    => {<<data["edges"][k].source, data["edges"][k].target>> :
           k \in 1..Len(data["edges"])} = ReferencePairs(topK)

\* the (source, target) of an edge precedes that of another, or equals it
PairLeq(e, f) ==
    \/ e.source < f.source
    \/ e.source = f.source /\ e.target <= f.target

\* C16: the edge sequence that a build-edges run emits is sorted ascending
\* by (source, target), in both implementations.
C16_EdgesSorted ==
    BuildDone
    => \A k \in 1..(Len(data["edges"]) - 1) :
          PairLeq(data["edges"][k], data["edges"][k + 1])

\* the smallest id of a set of ids
MinId(G) == CHOOSE m \in G : \A j \in G : m <= j

\* C17: in the merge pass the survivor of each duplicate-title group is the
\* node with the smallest id, whatever the order in which the node files
\* were enumerated, so the ids that are kept and those that are removed do
\* not depend on that order.
C17_SurvivorIsFirstId ==
    (prog = "optimizer" /\ pc = "graph")
    => \A i \in Present(nodesAtStart) :
          (Cardinality(TitleGroup(i)) >= 2 /\ TitleKey(nodesAtStart[i].obj) # <<>>)
          => /\ TitleGroup(i) \ Range(removed) = {MinId(TitleGroup(i))}
             /\ nodeFiles[MinId(TitleGroup(i))].kind = "json"

\* C18: after an optimize run followed by a completed build-edges run,
\* whatever number of nodes remains, every edge of the persisted graph has
\* its source and target in graph.nodes, and graph.nodes is exactly the ids
\* of the node records in the store.  (Stated for an optimize run that
\* removed a node and in which every deletion succeeded.)
C18_NoDanglingAfterBuild ==
    (/\ prog = "relationer" /\ pc = "done" /\ rc = 0
     /\ prev.opt /\ prev.merged /\ ~prev.failed)
    => /\ HasEdges(graphFile)
       /\ \A k \in 1..Len(GraphIn(graphFile)["edges"]) :
             /\ GraphIn(graphFile)["edges"][k].source \in Range(NodesOf(graphFile))
             /\ GraphIn(graphFile)["edges"][k].target \in Range(NodesOf(graphFile))
       /\ Range(NodesOf(graphFile)) = Present(nodeFiles)

\* C19: an optimize run on a store in which one record is unparseable or
\* lacks an optional field returns success, with the graph written and
\* meta.optimized_at set.
C19_BadRecordToleratedByOptimize ==
    (prog = "optimizer" /\ pc = "done")
    => /\ rc = 0
       /\ graphFile = JsonFile(data)
       /\ "meta" \in DOMAIN data
       /\ Get(data["meta"], "optimized_at", -1) = clock

=============================================================================
